---- MODULE Spec2Model ----
(***************************************************************************)
(* The command bridge of skynet_memory_visualizer (src-tauri/src):         *)
(* main.rs registers three commands with the invoke handler, commands.rs   *)
(* implements them.  Each invocation of a command is a call slot with its  *)
(* own program counter; the operating system (process creation, launched   *)
(* subprocesses) and the backend service are the environment.              *)
(***************************************************************************)
EXTENDS Integers, Sequences, FiniteSets, TLC

\* Number of invocations the UI layer makes in one behaviour.
MaxCalls == 2

Calls == 1..MaxCalls

\* Build targets.  "freebsd" stands for every target_os for which none of
\* the three cfg attributes of open_external_link holds.
Targets == {"linux", "macos", "windows", "freebsd"}

\* The commands named in generate_handler!.
Commands == {"get_app_config", "check_backend_health", "open_external_link"}

\* A string that contains an interior NUL character.
NulUrl == "http://te<NUL>st"

\* Arguments the UI layer passes as `url`.
Urls == {"", "http://test", "not a url", NulUrl}

\* States of the backend service (environment).
BackendStates == {"healthy", "unhealthy", "unreachable"}

VARIABLES
    target,     \* the target_os the binary was built for
    pc,         \* pc[i]: position of invocation i
    op,         \* op[i]: the command invocation i names
    url,        \* url[i]: the argument of open_external_link
    tmp,        \* tmp[i]: the value of `....spawn()` while the statement runs
    result,     \* result[i]: what the command returned to the UI layer
    reqs,       \* reqs[i]: process-creation requests made by invocation i
    children,   \* subprocesses the operating system created, with status
    held,       \* process ids whose Child handle the bridge still owns
    backend,    \* state of the backend service
    probed      \* probed[i]: backend state when check_backend_health ran

vars == <<target, pc, op, url, tmp, result, reqs, children, held, backend, probed>>

None == [tag |-> "None"]
Ok(v) == [tag |-> "Ok", val |-> v]
Err(m) == [tag |-> "Err", msg |-> m]
Unit == "()"

---------------------------------------------------------------------------
(* commands.rs, get_app_config *)

\* Mutation: the two service URLs exchanged.
AppConfig_Swapped ==
    [flask_api_url |-> "http://localhost:3456",
     mcp_api_url   |-> "http://localhost:5432",
     app_version   |-> "1.0.0"]

AppConfig ==
    [flask_api_url |-> "http://localhost:5432",
     mcp_api_url   |-> "http://localhost:3456",
     app_version   |-> "1.0.0"]

---------------------------------------------------------------------------
(* commands.rs, open_external_link: conditional compilation *)

cfg_linux(t) == t = "linux"
cfg_macos(t) == t = "macos"
cfg_windows(t) == t = "windows"

\* The cfg blocks of open_external_link compiled into a build for t.
ActiveBranches(t) ==
    {b \in {"linux", "macos", "windows"} :
        \/ b = "linux" /\ cfg_linux(t)
        \/ b = "macos" /\ cfg_macos(t)
        \/ b = "windows" /\ cfg_windows(t)}

\* std::process::Command::new(program) and its .arg / .args builders.
CommandNew(program) == [program |-> program, args |-> <<>>]
Arg(cmd, a) == [cmd EXCEPT !.args = Append(@, a)]
Args(cmd, as) == [cmd EXCEPT !.args = @ \o as]

\* Mutation: the Windows block forgets the start verb.
LauncherCommand_NoStart(t, u) ==
    CASE cfg_linux(t)   -> Arg(CommandNew("xdg-open"), u)
      [] cfg_macos(t)   -> Arg(CommandNew("open"), u)
      [] cfg_windows(t) -> Args(CommandNew("cmd"), <<"/C", u>>)

\* The Command the active block of a build for t constructs for u.
LauncherCommand(t, u) ==
    CASE cfg_linux(t)   -> Arg(CommandNew("xdg-open"), u)
      [] cfg_macos(t)   -> Arg(CommandNew("open"), u)
      [] cfg_windows(t) -> Args(CommandNew("cmd"), <<"/C", "start", u>>)

---------------------------------------------------------------------------
(* std::io::Error as returned by Command::spawn, and its to_string *)

Errnos == {2, 13}

error_string(code) ==
    IF code = 2 THEN "No such file or directory" ELSE "Permission denied"

Decimal(code) == IF code = 2 THEN "2" ELSE "13"

OsError(code) == [repr |-> "Os", code |-> code]
InvalidInput == [repr |-> "SimpleMessage", text |-> "nul byte found in provided data"]

\* <io::Error as Display>: "{detail} (os error {code})" for an OS error,
\* the message alone otherwise.  A string is the tuple of its pieces.
to_string(e) ==
    IF e.repr = "Os"
    THEN <<error_string(e.code), " (os error ", Decimal(e.code), ")">>
    ELSE <<e.text>>

\* Mutation: the closure wraps the message in a text of its own.
map_err_closure_Prefixed(e) == <<"Failed to open link: ">> \o to_string(e)

\* The closure given to map_err.
map_err_closure(e) == to_string(e)

has_nul(cmd) == \E k \in 1..Len(cmd.args) : cmd.args[k] = NulUrl

\* What Command::spawn can answer for cmd: an argument with an interior NUL
\* is refused before any process is created; otherwise the operating
\* system creates the process or reports why it cannot.
SpawnOutcomes(cmd) ==
    IF has_nul(cmd) THEN {Err(InvalidInput)}
    ELSE {Ok("child")} \cup {Err(OsError(c)) : c \in Errnos}

---------------------------------------------------------------------------
Init ==
    /\ target \in Targets
    /\ pc = [i \in Calls |-> "idle"]
    /\ op = [i \in Calls |-> "none"]
    /\ url = [i \in Calls |-> ""]
    /\ tmp = [i \in Calls |-> None]
    /\ result = [i \in Calls |-> None]
    /\ reqs = [i \in Calls |-> <<>>]
    /\ children = [p \in {} |-> "running"]
    /\ held = {}
    /\ backend \in BackendStates
    /\ probed = [i \in Calls |-> "none"]

---------------------------------------------------------------------------
(* main.rs: the invoke handler dispatches a named command *)

invoke(i, c, u) ==
    /\ pc[i] = "idle"
    /\ op' = [op EXCEPT ![i] = c]
    /\ url' = [url EXCEPT ![i] = IF c = "open_external_link" THEN u ELSE ""]
    /\ pc' = [pc EXCEPT ![i] = "start"]
    /\ UNCHANGED <<target, tmp, result, reqs, children, held, backend, probed>>

---------------------------------------------------------------------------
(* commands.rs *)

get_app_config(i) ==
    /\ pc[i] = "start" /\ op[i] = "get_app_config"
    /\ result' = [result EXCEPT ![i] = AppConfig]
    /\ pc' = [pc EXCEPT ![i] = "done"]
    /\ UNCHANGED <<target, op, url, tmp, reqs, children, held, backend, probed>>

\* Mutation: the command performs a check and reports what it finds.
check_backend_health_Probe(i) ==
    /\ pc[i] = "start" /\ op[i] = "check_backend_health"
    /\ result' = [result EXCEPT ![i] =
                     CASE backend = "healthy"     -> Ok(TRUE)
                       [] backend = "unhealthy"   -> Ok(FALSE)
                       [] backend = "unreachable" -> Err(<<"connection refused">>)]
    /\ probed' = [probed EXCEPT ![i] = backend]
    /\ pc' = [pc EXCEPT ![i] = "done"]
    /\ UNCHANGED <<target, op, url, tmp, reqs, children, held, backend>>

\* The body has no await point and does not look at the backend; probed
\* records the backend state at the moment of the call.
check_backend_health(i) ==
    /\ pc[i] = "start" /\ op[i] = "check_backend_health"
    /\ result' = [result EXCEPT ![i] = Ok(TRUE)]
    /\ probed' = [probed EXCEPT ![i] = backend]
    /\ pc' = [pc EXCEPT ![i] = "done"]
    /\ UNCHANGED <<target, op, url, tmp, reqs, children, held, backend>>

\* Process id of the k-th process-creation request of invocation i.
Pid(i, k) == <<i, k>>

\* Command::new(..).arg(&url).spawn() of the active cfg block.
open_external_link_spawn(i) ==
    /\ pc[i] = "start" /\ op[i] = "open_external_link"
    /\ ActiveBranches(target) # {}
    /\ LET cmd == LauncherCommand(target, url[i])
           p == Pid(i, Len(reqs[i]) + 1)
       IN \E o \in SpawnOutcomes(cmd) :
            /\ reqs' = [reqs EXCEPT ![i] = Append(@, [cmd |-> cmd, outcome |-> o])]
            /\ IF o.tag = "Ok"
               THEN /\ children' = (p :> "running") @@ children
                    /\ held' = held \cup {p}
                    /\ tmp' = [tmp EXCEPT ![i] = Ok(p)]
               ELSE /\ tmp' = [tmp EXCEPT ![i] = o]
                    /\ UNCHANGED <<children, held>>
    /\ pc' = [pc EXCEPT ![i] = "spawned"]
    /\ UNCHANGED <<target, op, url, result, backend, probed>>

\* Mutation: the spawn result is kept in one place shared by all
\* invocations, so a call may pick up the result of another call.
open_external_link_try_Shared(i) ==
    /\ pc[i] = "spawned"
    /\ \E j \in Calls :
        /\ pc[j] = "spawned"
        /\ IF tmp[j].tag = "Err"
           THEN /\ result' = [result EXCEPT ![i] = Err(to_string(tmp[j].msg))]
                /\ pc' = [pc EXCEPT ![i] = "done"]
                /\ UNCHANGED held
           ELSE /\ held' = held \ {tmp[j].val}
                /\ pc' = [pc EXCEPT ![i] = "ret"]
                /\ UNCHANGED result
    /\ tmp' = [tmp EXCEPT ![i] = None]
    /\ UNCHANGED <<target, op, url, reqs, children, backend, probed>>

\* Mutation: a failed spawn is tried a second time before it is reported.
open_external_link_try_Retry(i) ==
    /\ pc[i] = "spawned"
    /\ IF tmp[i].tag = "Err"
       THEN IF Len(reqs[i]) < 2
            THEN /\ pc' = [pc EXCEPT ![i] = "start"]
                 /\ UNCHANGED <<result, held>>
            ELSE /\ result' = [result EXCEPT ![i] = Err(to_string(tmp[i].msg))]
                 /\ pc' = [pc EXCEPT ![i] = "done"]
                 /\ UNCHANGED held
       ELSE /\ held' = held \ {tmp[i].val}
            /\ pc' = [pc EXCEPT ![i] = "ret"]
            /\ UNCHANGED result
    /\ tmp' = [tmp EXCEPT ![i] = None]
    /\ UNCHANGED <<target, op, url, reqs, children, backend, probed>>

\* .map_err(|e| e.to_string())?; an Err returns from the function, an Ok
\* value is a temporary Child dropped at the end of the statement (dropping
\* a Child neither waits for nor kills the process).
open_external_link_try(i) ==
    /\ pc[i] = "spawned"
    /\ IF tmp[i].tag = "Err"
       THEN /\ result' = [result EXCEPT ![i] = Err(map_err_closure(tmp[i].msg))]
            /\ pc' = [pc EXCEPT ![i] = "done"]
            /\ UNCHANGED held
       ELSE /\ held' = held \ {tmp[i].val}
            /\ pc' = [pc EXCEPT ![i] = "ret"]
            /\ UNCHANGED result
    /\ tmp' = [tmp EXCEPT ![i] = None]
    /\ UNCHANGED <<target, op, url, reqs, children, backend, probed>>

\* Mutation: the function waits for the launched process and reports its
\* exit status.
open_external_link_ok_Wait(i) ==
    /\ op[i] = "open_external_link"
    /\ \/ /\ pc[i] = "ret"
          /\ children[Pid(i, 1)] # "running"
          /\ result' = [result EXCEPT ![i] =
                           IF children[Pid(i, 1)] = "exited_success"
                           THEN Ok(Unit) ELSE Err(<<"exit status: 1">>)]
       \/ /\ pc[i] = "start" /\ ActiveBranches(target) = {}
          /\ result' = [result EXCEPT ![i] = Ok(Unit)]
    /\ pc' = [pc EXCEPT ![i] = "done"]
    /\ UNCHANGED <<target, op, url, tmp, reqs, children, held, backend, probed>>

\* The final Ok(()): reached after the statement of the active block, or
\* directly when no block is compiled in.
open_external_link_ok(i) ==
    /\ op[i] = "open_external_link"
    /\ \/ pc[i] = "ret"
       \/ pc[i] = "start" /\ ActiveBranches(target) = {}
    /\ result' = [result EXCEPT ![i] = Ok(Unit)]
    /\ pc' = [pc EXCEPT ![i] = "done"]
    /\ UNCHANGED <<target, op, url, tmp, reqs, children, held, backend, probed>>

---------------------------------------------------------------------------
(* environment *)

\* A launched process ends, with success or with failure.
child_exit(p, s) ==
    /\ p \in DOMAIN children /\ children[p] = "running"
    /\ children' = [children EXCEPT ![p] = s]
    /\ UNCHANGED <<target, pc, op, url, tmp, result, reqs, held, backend, probed>>

\* The backend service goes up or down.
backend_change(b) ==
    /\ b # backend
    /\ backend' = b
    /\ UNCHANGED <<target, pc, op, url, tmp, result, reqs, children, held, probed>>

---------------------------------------------------------------------------
\* The steps of invocation i once dispatched.
Step(i) ==
    \/ get_app_config(i)
    \/ check_backend_health(i)
    \/ open_external_link_spawn(i)
    \/ open_external_link_try(i)
    \/ open_external_link_ok(i)

Next ==
    \/ \E i \in Calls, c \in Commands, u \in Urls : invoke(i, c, u)
    \/ \E i \in Calls : get_app_config(i)
    \/ \E i \in Calls : check_backend_health(i)
    \/ \E i \in Calls : open_external_link_spawn(i)
    \/ \E i \in Calls : open_external_link_try(i)
    \/ \E i \in Calls : open_external_link_ok(i)
    \/ \E p \in DOMAIN children, s \in {"exited_success", "exited_failure"} : child_exit(p, s)
    \/ \E b \in BackendStates : backend_change(b)

Spec == Init /\ [][Next]_vars

---------------------------------------------------------------------------
(* Vocabulary of the properties *)

IsOpen(i) == op[i] = "open_external_link"
IsDone(i) == pc[i] = "done"
InFlight(i) == pc[i] \in {"start", "spawned", "ret"}
Supported == {"linux", "macos", "windows"}

\* The configuration record the interface documents.
DocumentedConfig ==
    [flask_api_url |-> "http://localhost:5432",
     mcp_api_url   |-> "http://localhost:3456",
     app_version   |-> "1.0.0"]

\* The launcher command the interface documents for target t and URI u.
DocumentedLauncher(t, u) ==
    CASE t = "linux"   -> [program |-> "xdg-open", args |-> <<u>>]
      [] t = "macos"   -> [program |-> "open", args |-> <<u>>]
      [] t = "windows" -> [program |-> "cmd", args |-> <<"/C", "start", u>>]

\* r is an Err value (the record returned by get_app_config has no tag).
IsErr(r) == "tag" \in DOMAIN r /\ r.tag = "Err"

\* Invocation i asked the operating system for a process and was refused.
SpawnFailed(i) ==
    \E k \in 1..Len(reqs[i]) : reqs[i][k].outcome.tag = "Err"

\* Subprocesses that exist because of invocation i.
ChildrenOf(i) == {p \in DOMAIN children : p[1] = i}

---------------------------------------------------------------------------
\* C1: on Linux, macOS and Windows a call of open_external_link(u) requests
\* exactly the documented launcher command with u unmodified (xdg-open [u],
\* open [u], cmd ["/C", "start", u]), once, and nothing else.
C1_LauncherCommand ==
    \A i \in Calls :
        (IsOpen(i) /\ target \in Supported) =>
            /\ \A k \in 1..Len(reqs[i]) :
                   reqs[i][k].cmd = DocumentedLauncher(target, url[i])
            /\ (pc[i] \in {"spawned", "ret", "done"}) => Len(reqs[i]) = 1
            /\ pc[i] \in {"idle", "start"} => Len(reqs[i]) = 0

C1_Witness ==
    \E i \in Calls :
        /\ target = "windows" /\ IsOpen(i) /\ IsDone(i)
        /\ url[i] = "http://test"
        /\ reqs[i] # <<>>
        /\ reqs[i][1].cmd = [program |-> "cmd", args |-> <<"/C", "start", "http://test">>]

\* C2 as stated: exactly one launcher block is active whatever the build
\* target, so every finished call of open_external_link has made exactly
\* one spawn attempt and one that returned Ok has launched one subprocess.
C2_OneBranchEveryTarget ==
    \A i \in Calls :
        (IsOpen(i) /\ IsDone(i)) =>
            /\ Cardinality(ActiveBranches(target)) = 1
            /\ Len(reqs[i]) = 1
            /\ result[i] = Ok(Unit) => Cardinality(ChildrenOf(i)) = 1

\* C3: when process creation fails, open_external_link returns Err with the
\* text of the error it was given, unaltered, no subprocess exists because
\* of the call and Ok is not returned; and it returns Err only when process
\* creation failed.
C3_SpawnFailure ==
    \A i \in Calls :
        (IsOpen(i) /\ IsDone(i)) =>
            /\ SpawnFailed(i) =>
                   /\ result[i] = Err(to_string(reqs[i][Len(reqs[i])].outcome.msg))
                   /\ ChildrenOf(i) = {}
                   /\ result[i] # Ok(Unit)
            /\ result[i].tag = "Err" => SpawnFailed(i)

C3_Witness ==
    \E i \in Calls :
        /\ IsOpen(i) /\ IsDone(i)
        /\ reqs[i] # <<>>
        /\ reqs[i][1].outcome = Err(OsError(2))
        /\ result[i] = Err(<<"No such file or directory", " (os error ", "2", ")">>)

\* C4: open_external_link never blocks on the launched process (its next
\* step is enabled whatever the process does), returns Ok once the process
\* was created whether the process runs on, succeeds or fails, and owns no
\* process handle once it has returned.
C4_FireAndForget ==
    \A i \in Calls :
        IsOpen(i) =>
            /\ pc[i] \in {"spawned", "ret"} => ENABLED Step(i)
            /\ (IsDone(i) /\ reqs[i] # <<>> /\ reqs[i][1].outcome.tag = "Ok") =>
                   result[i] = Ok(Unit)
            /\ IsDone(i) => held \cap ChildrenOf(i) = {}

C4_Witness ==
    \E i, j \in Calls :
        /\ IsOpen(i) /\ IsDone(i) /\ result[i] = Ok(Unit)
        /\ Pid(i, 1) \in DOMAIN children /\ children[Pid(i, 1)] = "running"
        /\ IsOpen(j) /\ IsDone(j) /\ result[j] = Ok(Unit)
        /\ Pid(j, 1) \in DOMAIN children /\ children[Pid(j, 1)] = "exited_failure"

\* What a step of invocation i leaves alone in every other invocation.
OthersUntouched(i) ==
    \A j \in Calls \ {i} :
        /\ pc'[j] = pc[j] /\ op'[j] = op[j] /\ url'[j] = url[j]
        /\ tmp'[j] = tmp[j] /\ result'[j] = result[j] /\ reqs'[j] = reqs[j]

\* C5: get_app_config never fails and always returns the record with
\* flask_api_url "http://localhost:5432", mcp_api_url "http://localhost:3456"
\* and app_version "1.0.0", however it is interleaved with other calls, and
\* its step launches no process and changes no state of the bridge, of the
\* operating system or of another invocation.
C5_ConfigFixed ==
    /\ [](\A i \in Calls :
            op[i] = "get_app_config" =>
                /\ pc[i] = "start" => ENABLED get_app_config(i)
                /\ IsDone(i) => /\ result[i] = DocumentedConfig
                                /\ reqs[i] = <<>>
                                /\ ChildrenOf(i) = {})
    /\ [][\A i \in Calls :
            (op[i] = "get_app_config" /\ pc[i] = "start" /\ pc'[i] = "done") =>
                /\ UNCHANGED <<target, reqs, children, held, backend>>
                /\ result'[i] = DocumentedConfig
                /\ OthersUntouched(i)]_vars

C5_Witness ==
    \E i, j \in Calls :
        /\ op[i] = "get_app_config" /\ IsDone(i) /\ result[i] = DocumentedConfig
        /\ IsOpen(j) /\ IsDone(j) /\ result[j].tag = "Err"

\* C6 as stated: check_backend_health returns Ok(true) when the backend is
\* healthy, Ok(false) when it is unhealthy and Err when the check cannot be
\* performed.
C6_ReportsBackendState ==
    \A i \in Calls :
        (op[i] = "check_backend_health" /\ IsDone(i)) =>
            /\ probed[i] = "healthy" => result[i] = Ok(TRUE)
            /\ probed[i] = "unhealthy" => result[i] = Ok(FALSE)
            /\ probed[i] = "unreachable" => result[i].tag = "Err"

\* C7: check_backend_health returns Ok(true) on every call, whatever the
\* state of the backend when it is called; it never returns Ok(false) or
\* Err and launches no process.
C7_StubAlwaysTrue ==
    \A i \in Calls :
        op[i] = "check_backend_health" =>
            /\ pc[i] = "start" => ENABLED check_backend_health(i)
            /\ IsDone(i) => /\ probed[i] \in BackendStates
                            /\ result[i] = Ok(TRUE)
                            /\ reqs[i] = <<>>
                            /\ ChildrenOf(i) = {}

C7_Witness ==
    \E i, j \in Calls :
        /\ op[i] = "check_backend_health" /\ IsDone(i)
        /\ probed[i] = "unreachable" /\ result[i] = Ok(TRUE)
        /\ op[j] = "check_backend_health" /\ IsDone(j)
        /\ probed[j] = "unhealthy" /\ result[j] = Ok(TRUE)

\* The result invocation i returns when it runs with no other invocation:
\* a function of its command, its argument and what the operating system
\* answered to its own request.
AloneResult(i) ==
    CASE op[i] = "get_app_config" -> DocumentedConfig
      [] op[i] = "check_backend_health" -> Ok(TRUE)
      [] op[i] = "open_external_link" ->
            IF reqs[i] # <<>> /\ reqs[i][1].outcome.tag = "Err"
            THEN Err(to_string(reqs[i][1].outcome.msg))
            ELSE Ok(Unit)

\* Position of a program counter in the order of execution.
Rank(l) ==
    CASE l = "idle" -> 0 [] l = "start" -> 1 [] l = "spawned" -> 2
      [] l = "ret" -> 3 [] l = "done" -> 4

\* C8: under any interleaving, every dispatched invocation can always take
\* its next step and every step moves it forward (so it completes), its
\* result is the one it returns when run alone, and a step of one
\* invocation changes nothing of another invocation.
C8_Independent ==
    /\ [](\A i \in Calls :
            /\ InFlight(i) => ENABLED Step(i)
            /\ IsDone(i) => result[i] = AloneResult(i))
    /\ [][\A i \in Calls :
            pc'[i] # pc[i] =>
                /\ Rank(pc'[i]) > Rank(pc[i])
                /\ OthersUntouched(i)]_vars

C8_Witness ==
    \E i, j \in Calls :
        /\ i # j
        /\ IsOpen(i) /\ pc[i] = "spawned" /\ tmp[i].tag = "Err"
        /\ IsOpen(j) /\ pc[j] = "spawned" /\ tmp[j].tag = "Ok"

\* Arguments that are not well-formed URIs.
Malformed == {"", "not a url", NulUrl}

\* C9 as stated: for the empty string and any malformed string, on any
\* platform, open_external_link attempts to spawn the launcher with that
\* string and ends in Ok or in Err with the propagated error string.
C9_NoValidationAnyPlatform ==
    \A i \in Calls :
        (IsOpen(i) /\ IsDone(i) /\ url[i] \in Malformed) =>
            /\ Len(reqs[i]) = 1
            /\ reqs[i][1].cmd.args[Len(reqs[i][1].cmd.args)] = url[i]
            /\ \/ reqs[i][1].outcome.tag = "Ok" /\ result[i] = Ok(Unit)
               \/ /\ reqs[i][1].outcome.tag = "Err"
                  /\ result[i] = Err(to_string(reqs[i][1].outcome.msg))

\* C10: a failed open_external_link has made one spawn attempt and makes no
\* other (no invocation ever makes a second one), the error is the result
\* of that invocation alone, and with failures in the past every idle
\* invocation can still be dispatched, every dispatched one can still take
\* its step and every finished one has the result it has without failures.
C10_NoRetryNotFatal ==
    /\ \A i \in Calls : Len(reqs[i]) <= 1
    /\ \A i \in Calls :
        (IsDone(i) /\ IsErr(result[i])) =>
            /\ IsOpen(i) /\ Len(reqs[i]) = 1
            /\ ~ ENABLED Step(i)
            /\ \A j \in Calls \ {i} :
                /\ pc[j] = "idle" =>
                       \A c \in Commands : ENABLED invoke(j, c, "http://test")
                /\ InFlight(j) => ENABLED Step(j)
                /\ IsDone(j) => result[j] = AloneResult(j)

C10_Witness ==
    \E i, j \in Calls :
        /\ IsOpen(i) /\ IsDone(i) /\ IsErr(result[i])
        /\ IsOpen(j) /\ IsDone(j) /\ result[j] = Ok(Unit) /\ ChildrenOf(j) # {}

====
